---- MODULE Spec2Model ----
(***************************************************************************)
(* django-devdata: the dependency sequencer (utils.sort_model_strategies)  *)
(* and the export executor (engine.export_data, _export_concurrently).     *)
(*                                                                         *)
(* Labels are "app.Name" strings, models are the records of the app        *)
(* registry, a work unit is a pair <<label, strategy name>>.  The keys of  *)
(* settings.strategies are written in the canonical "app_label.ClassName"  *)
(* form that validate_strategies demands.                                  *)
(***************************************************************************)
EXTENDS Integers, Sequences, FiniteSets, TLC

\* ---------------------------------------------------------------- bounds
\* Dependency declarations (fields, joins, natural keys, depends_on) of a run.
MaxEdges == 2
\* Strategies configured for one label.
MaxHandlers == 2
\* Largest value of the concurrency argument.
MaxConcurrency == 2

\* ------------------------------------------------------- the app registry
ModelNames == {"A", "B", "C"}

Model(n) == [app_label |-> "app", name |-> n]

\* apps.get_models(): the installed model classes.
Registry == {Model(n) : n \in ModelNames}

\* Python's None, as to_model returns it.
None == [app_label |-> "", name |-> ""]

to_app_model_label(model) == model.app_label \o "." \o model.name

InstalledLabels == {to_app_model_label(m) : m \in Registry}

\* A label of an app that is not installed.
GoneLabel == "gone.U"

AllLabels == InstalledLabels \cup {GoneLabel}

to_model(app_model_label) ==
    IF \E m \in Registry : to_app_model_label(m) = app_model_label
    THEN CHOOSE m \in Registry : to_app_model_label(m) = app_model_label
    ELSE None

\* model.__name__ order, as sorted(..., key=lambda obj: obj[0].__name__) uses it.
NameRank(model) ==
    CASE model.name = "A" -> 1
      [] model.name = "B" -> 2
      [] model.name = "C" -> 3
      [] OTHER -> 0

\* ------------------------------------------------------------- sequences
Range(s) == {s[i] : i \in 1..Len(s)}

RECURSIVE SeqConcat(_)
SeqConcat(ss) == IF ss = <<>> THEN <<>> ELSE Head(ss) \o SeqConcat(Tail(ss))

\* ------------------------------------------------------------------ state
VARIABLES
    strategies,     \* settings.strategies: the ordered mapping label -> strategies
    schema,         \* the model layer: fields, joins and natural-key dependencies
    only,           \* export_data's only argument
    concurrency,    \* export_data's concurrency argument
    pc,             \* where the controller (the calling thread) is
    sorted,         \* what sort_model_strategies returned or raised
    model_strategies,   \* export_data's filtered list of (label, strategy)
    done,           \* _export_concurrently: the set of finished labels
    in_flight,      \* _export_concurrently: label -> future, in insertion order
    available,      \* available_strategies of the current iteration
    todo,           \* what the running for loop has still to visit
    futures,        \* the state of the future of each submitted unit
    queue,          \* the executor's work queue, first in first out
    invoked,        \* the units _export_one was called for, in call order
    result          \* what the run returns or raises to its caller

inputs == <<strategies, schema, only, concurrency>>

executor == <<model_strategies, done, in_flight, available, todo, futures, queue,
              invoked, result>>

vars == <<strategies, schema, only, concurrency, pc, sorted, model_strategies,
          done, in_flight, available, todo, futures, queue, invoked, result>>

\* A declaration of the model layer or of the settings: dst is the label (or
\* object) depended on, n the position of a further strategy.
Declaration(src, kind, dst, n) == [src |-> src, kind |-> kind, dst |-> dst, n |-> n]

\* A strategy: its name and its depends_on labels.
Strategy(k, deps) == [name |-> k, depends_on |-> deps]

\* strategy_map[label]
Lookup(strategy_map, label) ==
    strategy_map[CHOOSE i \in 1..Len(strategy_map) :
                        strategy_map[i].label = label].strats

\* model._meta.fields with a remote_field: the models they point to.
Fields(model) ==
    {to_model(e.dst) : e \in {x \in schema : x.kind = "fk" /\ x.src = model}}

\* model._meta.many_to_many: [model, auto_created] of each join.  Joins through
\* an explicit model (auto_created false) add no dependency and are not drawn.
ManyToMany(model) ==
    {[model |-> to_model(e.dst), auto_created |-> e.kind = "m2m"] :
        e \in {x \in schema : x.kind = "m2m" /\ x.src = model}}

\* getattr(model.natural_key, "dependencies", []): the labels declared there.
NaturalKeyDependencies(model) ==
    {e.dst : e \in {x \in schema : x.kind = "nk" /\ x.src = model}}

\* natural_key.dependencies was declared as an empty list: line 53 hands out
\* that very list object, and lines 61, 68 and 72 append to it.
NaturalKeyAliased(model) ==
    \E x \in schema : x.kind = "nk_empty" /\ x.src = model

\* How a declaration names a model object (or None) held in such a list.
ObjectName(model) == IF model = None THEN "None" ELSE to_app_model_label(model)

\* The model objects an earlier call left in natural_key.dependencies.
NaturalKeyAppended(model) ==
    {e.dst : e \in {x \in schema : x.kind = "nk_appended" /\ x.src = model}}

\* ---------------------------------------------- utils.sort_model_strategies
\* Lines 52-57: apps.get_model(dep) raises LookupError for an unknown label.
NaturalKeyRaises(model) ==
    \E dep \in NaturalKeyDependencies(model) : to_model(dep) = None

\* Lines 52-55: what resolving the natural-key dependencies raises: LookupError
\* for an unknown label, AttributeError for an entry that is no label at all
\* (apps.get_model starts with dep.split(".")).
NaturalKeyError(model) ==
    IF NaturalKeyAppended(model) # {} THEN "AttributeError"
    ELSE IF NaturalKeyRaises(model) THEN "LookupError"
    ELSE "none"

\* Lines 59-72: what is appended to deps (None for an unresolved depends_on).
AppendedDeps(model, strats) ==
    {m \in Fields(model) : m # model}
    \cup {j.model : j \in {x \in ManyToMany(model) :
                            x.auto_created /\ x.model # model}}
    \cup UNION {{to_model(dep) : dep \in strats[i].depends_on} :
                    i \in 1..Len(strats)}

\* Lines 52-72: the deps list of one model.
ModelDeps(model, strats) ==
    {to_model(dep) : dep \in NaturalKeyDependencies(model)}
    \cup AppendedDeps(model, strats)

\* Lines 45-48: the entries whose model resolves, in declared order.
RECURSIVE ResolvedEntries(_)
ResolvedEntries(strategy_map) ==
    IF strategy_map = <<>> THEN <<>>
    ELSE IF to_model(Head(strategy_map).label) = None
         THEN ResolvedEntries(Tail(strategy_map))
         ELSE <<Head(strategy_map)>> \o ResolvedEntries(Tail(strategy_map))

\* Lines 42-74: model_dependencies, the list of (model, deps).
ModelDependencies(strategy_map) ==
    LET es == ResolvedEntries(strategy_map)
    IN  [i \in 1..Len(es) |->
            [model |-> to_model(es[i].label),
             deps  |-> ModelDeps(to_model(es[i].label), es[i].strats)]]

\* Lines 76-79: dependency_graph, label -> set of labels.
DependencyGraph(model_dependencies) ==
    [l \in {to_app_model_label(model_dependencies[i].model) :
                i \in 1..Len(model_dependencies)} |->
        {to_app_model_label(z) :
            z \in model_dependencies[
                    CHOOSE i \in 1..Len(model_dependencies) :
                        to_app_model_label(model_dependencies[i].model) = l].deps}]

\* Line 81: list.reverse()
Reverse(s) == [i \in 1..Len(s) |-> s[Len(s) + 1 - i]]

\* Mutant: any() where the code has all().
DepsSatisfiedAny(deps, models, model_list) ==
    \E d \in deps : d \notin models \/ d \in Range(model_list)

\* Line 93: the readiness test of one model.
DepsSatisfied(deps, models, model_list) ==
    \A d \in deps : d \notin models \/ d \in Range(model_list)

\* Lines 87-97: one pass; pop() takes the LAST element of model_dependencies.
RECURSIVE ScanPass(_, _, _, _, _)
ScanPass(model_dependencies, models, model_list, skipped, changed) ==
    IF model_dependencies = <<>>
    THEN [model_list |-> model_list, skipped |-> skipped, changed |-> changed]
    ELSE LET item == model_dependencies[Len(model_dependencies)]
             rest == SubSeq(model_dependencies, 1, Len(model_dependencies) - 1)
         IN  IF DepsSatisfied(item.deps, models, model_list)
             THEN ScanPass(rest, models, Append(model_list, item.model), skipped, TRUE)
             ELSE ScanPass(rest, models, model_list, Append(skipped, item), changed)

\* Lines 105-107: sorted(skipped, key=__name__), by insertion.
RECURSIVE SortedByName(_)
SortedByName(skipped) ==
    IF skipped = <<>> THEN <<>>
    ELSE LET rest == SortedByName(Tail(skipped))
             x == Head(skipped)
             before == SelectSeq(rest, LAMBDA y : NameRank(y.model) < NameRank(x.model))
             after == SelectSeq(rest, LAMBDA y : NameRank(y.model) >= NameRank(x.model))
         IN  before \o <<x>> \o after

\* Mutant: raises as soon as a pass skips a model.
PeelEager(model_dependencies, models, model_list) ==
    LET p == ScanPass(model_dependencies, models, model_list, <<>>, FALSE)
    IN  IF model_dependencies = <<>>
        THEN [kind |-> "ok", model_list |-> model_list, names |-> <<>>]
        ELSE IF p.skipped # <<>>
        THEN [kind |-> "RuntimeError", model_list |-> <<>>,
              names |-> [i \in 1..Len(p.skipped) |->
                            to_app_model_label(p.skipped[i].model)]]
        ELSE [kind |-> "ok", model_list |-> p.model_list, names |-> <<>>]

\* Lines 83-112: the passes; a pass that appends nothing raises RuntimeError
\* naming the skipped models.
RECURSIVE Peel(_, _, _)
Peel(model_dependencies, models, model_list) ==
    IF model_dependencies = <<>>
    THEN [kind |-> "ok", model_list |-> model_list, names |-> <<>>]
    ELSE LET p == ScanPass(model_dependencies, models, model_list, <<>>, FALSE)
         IN  IF ~p.changed
             THEN [kind |-> "RuntimeError", model_list |-> <<>>,
                   names |-> [i \in 1..Len(p.skipped) |->
                        to_app_model_label(SortedByName(p.skipped)[i].model)]]
             ELSE Peel(p.skipped, models, p.model_list)

\* Lines 114-118: one (label, strategy) per model of model_list per strategy.
SortedStrategies(model_list, strategy_map) ==
    SeqConcat([i \in 1..Len(model_list) |->
        LET l == to_app_model_label(model_list[i])
            ss == Lookup(strategy_map, l)
        IN  [k \in 1..Len(ss) |-> <<l, ss[k].name>>]])

NoGraph == [l \in {} |-> {}]

Raised(kind, names) ==
    [kind |-> kind, sorted_strategies |-> <<>>, dependency_graph |-> NoGraph,
     names |-> names]

\* The entries whose turn of the loop of lines 45-74 raises on line 55.
RaisingEntries(es) ==
    {i \in 1..Len(es) : NaturalKeyError(to_model(es[i].label)) # "none"}

FirstRaising(es) ==
    CHOOSE i \in RaisingEntries(es) : \A j \in RaisingEntries(es) : i <= j

\* Lines 53-72: the model layer after the call.  Every turn of the loop that
\* got past line 55 with an aliased natural_key.dependencies list has appended
\* its deps to that list.
SchemaAfterSort(strategy_map) ==
    LET es == ResolvedEntries(strategy_map)
        last == IF RaisingEntries(es) = {} THEN Len(es) ELSE FirstRaising(es) - 1
    IN  schema \cup UNION {
            LET m == to_model(es[i].label)
            IN  IF NaturalKeyAliased(m)
                THEN {Declaration(m, "nk_appended", ObjectName(d), 0) :
                        d \in AppendedDeps(m, es[i].strats)}
                ELSE {} : i \in 1..last}

\* Lines 41-119.  kind is "ok" or the exception raised.
sort_model_strategies(strategy_map) ==
    LET es == ResolvedEntries(strategy_map)
        models == {to_model(es[i].label) : i \in 1..Len(es)}
        model_dependencies == ModelDependencies(strategy_map)
    IN  IF RaisingEntries(es) # {}
        THEN Raised(NaturalKeyError(to_model(es[FirstRaising(es)].label)), <<>>)
        ELSE IF \E i \in 1..Len(model_dependencies) :
                    None \in model_dependencies[i].deps
        THEN Raised("AttributeError", <<>>)
        ELSE LET p == Peel(Reverse(model_dependencies), models, <<>>)
             IN  IF p.kind = "RuntimeError"
                 THEN Raised("RuntimeError", p.names)
                 ELSE [kind |-> "ok",
                       sorted_strategies |->
                            SortedStrategies(p.model_list, strategy_map),
                       dependency_graph |-> DependencyGraph(model_dependencies),
                       names |-> <<>>]

\* ------------------------------------------------------------- the inputs
\* What a project can declare beyond one strategy per label: a foreign key, a
\* many-to-many join, a natural-key dependency, a depends_on entry of a
\* strategy, a further strategy.
DeclarationUniverse(kinds) ==
    {Declaration(m, k, d, 0) :
        m \in Registry, k \in kinds \cap {"fk", "m2m"},
        d \in InstalledLabels}
    \cup {Declaration(m, k, d, 0) :
        m \in Registry, k \in kinds \cap {"nk", "depends_on"}, d \in AllLabels}
    \cup {Declaration(m, k, "", n) :
        m \in Registry, k \in kinds \cap {"strategy"}, n \in 2..MaxHandlers}
    \cup {Declaration(m, k, "", 0) : m \in Registry, k \in kinds \cap {"nk_empty"}}

RECURSIVE SubsetsUpTo(_, _)
SubsetsUpTo(S, n) ==
    IF n = 0 THEN {{}}
    ELSE LET P == SubsetsUpTo(S, n - 1)
         IN  P \cup {X \cup {e} : X \in P, e \in S}

\* The n-th strategy of a label is declared only after the (n-1)-th.
StrategiesClosed(D) ==
    \A e \in D : (e.kind = "strategy" /\ e.n > 2) =>
        Declaration(e.src, "strategy", "", e.n - 1) \in D

AllKinds == {"fk", "m2m", "nk", "depends_on", "strategy"}

SortDeclarations ==
    {D \in SubsetsUpTo(DeclarationUniverse(AllKinds), MaxEdges) : StrategiesClosed(D)}

\* Foreign keys, depends_on entries, and natural keys whose dependencies
\* attribute is the empty list.
ResortDeclarations ==
    SubsetsUpTo(DeclarationUniverse({"fk", "depends_on", "nk_empty"}), MaxEdges)

ExportDeclarations ==
    {D \in SubsetsUpTo(DeclarationUniverse({"fk", "strategy"}), MaxEdges) :
        StrategiesClosed(D) /\ \A e \in D : e.kind = "fk" => to_model(e.dst) # e.src}

RECURSIVE DistinctSeqs(_, _)
\* The sequences of at most n distinct elements of S.
DistinctSeqs(S, n) ==
    IF n = 0 THEN {<<>>}
    ELSE LET P == DistinctSeqs(S, n - 1)
         IN  P \cup UNION {{Append(q, x) : x \in S \ Range(q)} : q \in P}

\* The key orders of the installed labels, and the same after a key of an app
\* that is not installed.
SortKeyOrders ==
    LET P == DistinctSeqs(InstalledLabels, Cardinality(ModelNames))
    IN  P \cup {<<GoneLabel>> \o q : q \in P}

ExportKeyOrders ==
    {SubSeq(<<"app.A", "app.B", "app.C">>, 1, n) : n \in 0..3}

\* settings.strategies for the declared keys and declarations.
BuildStrategies(keys, D) ==
    [i \in 1..Len(keys) |->
        LET m == to_model(keys[i])
            n == 1 + Cardinality({e \in D : e.kind = "strategy" /\ e.src = m})
        IN  [label |-> keys[i],
             strats |-> [k \in 1..n |->
                Strategy(k, IF k = 1
                            THEN {e.dst : e \in {x \in D :
                                    x.kind = "depends_on" /\ x.src = m}}
                            ELSE {})]]]

InitInputs(keyOrders, declarations, onlys, concurrencies) ==
    \E keys \in keyOrders, D \in declarations :
        /\ \A e \in D : to_app_model_label(e.src) \in Range(keys)
        /\ strategies = BuildStrategies(keys, D)
        /\ schema = {e \in D : e.kind \in {"fk", "m2m", "nk", "nk_empty"}}
        /\ only \in onlys
        /\ concurrency \in concurrencies

NoResult == [kind |-> "none", unit |-> <<>>]

InitState ==
    /\ pc = "start"
    /\ sorted = Raised("none", <<>>)
    /\ model_strategies = <<>>
    /\ done = {}
    /\ in_flight = <<>>
    /\ available = <<>>
    /\ todo = <<>>
    /\ futures = [u \in {} |-> "PENDING"]
    /\ queue = <<>>
    /\ invoked = <<>>
    /\ result = NoResult

\* concurrency is None (<<>>) or an integer <<n>>.
Init ==
    /\ InitInputs(ExportKeyOrders, ExportDeclarations, SUBSET InstalledLabels,
                  {<<>>} \cup {<<n>> : n \in 1..MaxConcurrency})
    /\ InitState

InitSort ==
    /\ InitInputs(SortKeyOrders, SortDeclarations, {{}}, {<<>>})
    /\ InitState

InitResort ==
    /\ InitInputs(ExportKeyOrders, ResortDeclarations, {{}}, {<<>>})
    /\ InitState

\* ------------------------------------------------------ engine.export_data
\* Mutant: the filter without its "not only" escape.
FilterOnlyStrict(sorted_strategies) ==
    SelectSeq(sorted_strategies, LAMBDA u : u[1] \in only)

\* Lines 196-198: the only filter.
FilterOnly(sorted_strategies) ==
    SelectSeq(sorted_strategies, LAMBDA u : only = {} \/ u[1] \in only)

\* Line 200.
Concurrent == concurrency # <<>> /\ concurrency[1] > 1

\* Lines 192-210: sort, filter, pick the mode.
ExportData ==
    /\ pc = "start"
    /\ \E r \in {sort_model_strategies(strategies)} :
           /\ sorted' = r
           /\ schema' = SchemaAfterSort(strategies)
           /\ IF r.kind # "ok"
              THEN /\ pc' = "done"
                   /\ result' = [kind |-> r.kind, unit |-> <<>>]
                   /\ UNCHANGED <<model_strategies, todo>>
              ELSE /\ model_strategies' = FilterOnly(r.sorted_strategies)
                   /\ pc' = IF Concurrent THEN "loop" ELSE "serial"
                   /\ todo' = IF Concurrent THEN <<>> ELSE FilterOnly(r.sorted_strategies)
                   /\ UNCHANGED result
    /\ UNCHANGED <<strategies, only, concurrency, done, in_flight, available,
                   futures, queue, invoked>>

UnitError(u) == [kind |-> "UnitError", unit |-> u]

Returned == [kind |-> "ok", unit |-> <<>>]

\* Mutant: the serial loop records a runner's error and goes on.
SerialStepContinue ==
    /\ pc = "serial"
    /\ todo # <<>>
    /\ invoked' = Append(invoked, Head(todo))
    /\ todo' = Tail(todo)
    /\ \E raises \in BOOLEAN :
        result' = IF raises /\ result.kind = "none" THEN UnitError(Head(todo))
                  ELSE result
    /\ UNCHANGED <<inputs, pc, sorted, model_strategies, done, in_flight, available,
                   futures, queue>>

\* Lines 211-219: the serial loop calls _export_one for the next unit; what the
\* runner raises leaves export_data at once.
SerialStep ==
    /\ pc = "serial"
    /\ todo # <<>>
    /\ invoked' = Append(invoked, Head(todo))
    /\ \E raises \in BOOLEAN :
        IF raises
        THEN /\ pc' = "done"
             /\ result' = UnitError(Head(todo))
             /\ UNCHANGED todo
        ELSE /\ todo' = Tail(todo)
             /\ UNCHANGED <<pc, result>>
    /\ UNCHANGED <<inputs, sorted, model_strategies, done, in_flight, available,
                   futures, queue>>

\* Line 211: the serial loop is exhausted, export_data returns.
SerialReturn ==
    /\ pc = "serial"
    /\ todo = <<>>
    /\ pc' = "done"
    /\ result' = Returned
    /\ UNCHANGED <<inputs, sorted, model_strategies, done, in_flight, available,
                   todo, futures, queue, invoked>>

\* ------------------------------------------- engine._export_concurrently
InFlightLabels == {in_flight[i][1] : i \in 1..Len(in_flight)}

\* Mutant: a dependency graph that knows no dependency.
GraphGetNothing(x) == {}

\* dependency_graph.get(x, set())
GraphGet(x) ==
    IF x \in DOMAIN sorted.dependency_graph THEN sorted.dependency_graph[x] ELSE {}

\* Lines 127-131: the units of remaining_strategies.
Remaining(u) == u[1] \notin done /\ u[1] \notin InFlightLabels

\* Mutant: every remaining unit counts as ready.
AvailableIgnoringDeps == SelectSeq(model_strategies, LAMBDA u : Remaining(u))

\* Lines 135-137.
AvailableStrategies ==
    SelectSeq(model_strategies, LAMBDA u : Remaining(u) /\ GraphGet(u[1]) \ done = {})

\* Lines 140-142.
BlockedStrategies ==
    SelectSeq(model_strategies, LAMBDA u : Remaining(u) /\ GraphGet(u[1]) \ done # {})

\* Lines 178-181: the finally block has the futures of in_flight to cancel.
EnterFinally ==
    /\ pc' = IF in_flight = <<>> THEN "shutdown" ELSE "finally"
    /\ todo' = in_flight

\* Mutant: the loop body is entered without the test of its while.
LoopHeadWithoutTest ==
    /\ pc = "loop"
    /\ IF AvailableStrategies = <<>> /\ BlockedStrategies = <<>>
       THEN /\ result' = [kind |-> "AssertionError", unit |-> <<>>]
            /\ EnterFinally
            /\ UNCHANGED available
       ELSE /\ available' = AvailableStrategies
            /\ todo' = AvailableStrategies
            /\ pc' = "submit"
            /\ UNCHANGED result
    /\ UNCHANGED <<inputs, sorted, model_strategies, done, in_flight, futures,
                   queue, invoked>>

\* Lines 126-146: the loop test, the ready and blocked lists, the assertion.
LoopHead ==
    /\ pc = "loop"
    /\ IF ~(Cardinality(done) < Len(model_strategies))
       THEN /\ EnterFinally
            /\ UNCHANGED <<available, result>>
       ELSE IF AvailableStrategies = <<>> /\ BlockedStrategies = <<>>
       THEN /\ result' = [kind |-> "AssertionError", unit |-> <<>>]
            /\ EnterFinally
            /\ UNCHANGED available
       ELSE /\ available' = AvailableStrategies
            /\ todo' = AvailableStrategies
            /\ pc' = "submit"
            /\ UNCHANGED result
    /\ UNCHANGED <<inputs, sorted, model_strategies, done, in_flight, futures,
                   queue, invoked>>

\* Mutant: the submit loop without its membership test.
SkipSubmitNever(u) == FALSE

\* Lines 149-150: the unit is skipped.
SkipSubmit(u) == u[1] \in done \/ u[1] \in InFlightLabels

\* Lines 148-162: one turn of the for loop over available_strategies.
Submit ==
    /\ pc = "submit"
    /\ todo # <<>>
    /\ LET u == Head(todo)
       IN  IF SkipSubmit(u)
           THEN UNCHANGED <<in_flight, futures, queue>>
           ELSE /\ futures' = [x \in DOMAIN futures \cup {u} |->
                                    IF x = u THEN "PENDING" ELSE futures[x]]
                /\ queue' = Append(queue, u)
                /\ in_flight' = Append(in_flight, u)
    /\ todo' = Tail(todo)
    /\ UNCHANGED <<inputs, pc, sorted, model_strategies, done, available, invoked,
                   result>>

\* Lines 164-166: the sleep, then list(in_flight.items()).
Sleep ==
    /\ pc = "submit"
    /\ todo = <<>>
    /\ pc' = IF in_flight = <<>> THEN "loop" ELSE "poll"
    /\ todo' = in_flight
    /\ available' = <<>>
    /\ UNCHANGED <<inputs, sorted, model_strategies, done, in_flight, futures,
                   queue, invoked, result>>

\* future.done()
FutureDone(u) == futures[u] \in {"ok", "exc", "CANCELLED"}

\* Mutant: the poll scan takes a raised runner for a finished one.
PollIgnoresException ==
    /\ pc = "poll"
    /\ todo # <<>>
    /\ LET u == Head(todo)
           after == IF Tail(todo) = <<>> THEN "loop" ELSE "poll"
       IN  IF ~FutureDone(u)
           THEN /\ todo' = Tail(todo)
                /\ pc' = after
                /\ UNCHANGED <<done, in_flight>>
           ELSE /\ done' = done \cup {u[1]}
                /\ in_flight' = SelectSeq(in_flight, LAMBDA x : x[1] # u[1])
                /\ todo' = Tail(todo)
                /\ pc' = after
    /\ UNCHANGED <<inputs, sorted, model_strategies, available, futures, queue,
                   invoked, result>>

\* Lines 166-177: one turn of the poll scan.
Poll ==
    /\ pc = "poll"
    /\ todo # <<>>
    /\ LET u == Head(todo)
           after == IF Tail(todo) = <<>> THEN "loop" ELSE "poll"
       IN  IF ~FutureDone(u)
           THEN /\ todo' = Tail(todo)
                /\ pc' = after
                /\ UNCHANGED <<done, in_flight, result>>
           ELSE IF futures[u] = "exc"
           THEN /\ result' = UnitError(u)
                /\ EnterFinally
                /\ UNCHANGED <<done, in_flight>>
           ELSE /\ done' = done \cup {u[1]}
                /\ in_flight' = SelectSeq(in_flight, LAMBDA x : x[1] # u[1])
                /\ todo' = Tail(todo)
                /\ pc' = after
                /\ UNCHANGED result
    /\ UNCHANGED <<inputs, sorted, model_strategies, available, futures, queue,
                   invoked>>

\* Lines 180-181: future.cancel() succeeds on a future no worker has taken; a
\* cancelled work item is dropped by the worker that dequeues it, which the
\* model does at once.
Cancel ==
    /\ pc = "finally"
    /\ todo # <<>>
    /\ LET u == Head(todo)
       IN  IF futures[u] = "PENDING"
           THEN /\ futures' = [futures EXCEPT ![u] = "CANCELLED"]
                /\ queue' = SelectSeq(queue, LAMBDA x : x # u)
           ELSE UNCHANGED <<futures, queue>>
    /\ todo' = Tail(todo)
    /\ pc' = IF Tail(todo) = <<>> THEN "shutdown" ELSE "finally"
    /\ UNCHANGED <<inputs, sorted, model_strategies, done, in_flight, available,
                   invoked, result>>

Running == {u \in DOMAIN futures : futures[u] = "RUNNING"}

\* Line 119: leaving the with block is executor.shutdown(wait=True); then the
\* function returns, or the pending exception reaches the caller.
Shutdown ==
    /\ pc = "shutdown"
    /\ Running = {}
    /\ queue = <<>>
    /\ pc' = "done"
    /\ result' = IF result.kind = "none" THEN Returned ELSE result
    /\ UNCHANGED <<inputs, sorted, model_strategies, done, in_flight, available,
                   todo, futures, queue, invoked>>

\* Mutant: a pool without its max_workers.
WorkerAlwaysFree == TRUE

\* ThreadPoolExecutor(max_workers=concurrency): a worker is free.
WorkerFree == Cardinality(Running) < concurrency[1]

\* Line 152: a free worker takes the oldest work item and calls _export_one.
WorkerStart ==
    /\ queue # <<>>
    /\ WorkerFree
    /\ futures' = [futures EXCEPT ![Head(queue)] = "RUNNING"]
    /\ queue' = Tail(queue)
    /\ invoked' = Append(invoked, Head(queue))
    /\ UNCHANGED <<inputs, pc, sorted, model_strategies, done, in_flight, available,
                   todo, result>>

\* Lines 77-108: _export_one returns or raises in its worker.
WorkerFinish ==
    \E u \in Running, outcome \in {"ok", "exc"} :
        /\ futures' = [futures EXCEPT ![u] = outcome]
        /\ UNCHANGED <<inputs, pc, sorted, model_strategies, done, in_flight,
                       available, todo, queue, invoked, result>>

Next ==
    \/ ExportData
    \/ SerialStep
    \/ SerialReturn
    \/ LoopHead
    \/ Submit
    \/ Sleep
    \/ Poll
    \/ Cancel
    \/ Shutdown
    \/ WorkerStart
    \/ WorkerFinish

Spec == Init /\ [][Next]_vars

SortSpec == InitSort /\ [][ExportData]_vars

\* A call of sort_model_strategies(settings.strategies) on its own, as lines 192
\* and 266 of engine.py make it: what it returns or raises, and what it leaves
\* in the model layer.
SortCall ==
    /\ pc = "start"
    /\ sorted' = sort_model_strategies(strategies)
    /\ schema' = SchemaAfterSort(strategies)
    /\ UNCHANGED <<strategies, only, concurrency, pc, executor>>

\* Calls of sort_model_strategies, one after the other, in one process.
ResortSpec == InitResort /\ [][SortCall]_vars

\* ============================================================ the claims
\* The dependency graph lines 76-79 build for the configured strategies.
BuiltGraph == DependencyGraph(ModelDependencies(strategies))

\* sort_model_strategies got as far as building the graph.
GraphBuilt == sorted.kind \in {"ok", "RuntimeError"}

\* The dependencies of T that are themselves in the work set of the sequencer.
DepsInside(G, T) == G[T] \cap DOMAIN G

RECURSIVE Closure(_, _)
Closure(G, S) ==
    LET next == S \cup UNION {DepsInside(G, x) : x \in S}
    IN  IF next = S THEN S ELSE Closure(G, next)

\* What T depends on, directly or not, inside the work set.
Reach(G, T) == Closure(G, DepsInside(G, T))

OnCycle(G, T) == T \in Reach(G, T)

Acyclic(G) == \A T \in DOMAIN G : ~OnCycle(G, T)

\* T is on a cycle or depends, directly or not, on a label that is.
Unorderable(G, T) == OnCycle(G, T) \/ \E X \in Reach(G, T) : OnCycle(G, X)

\* The work units of the configured strategies whose model resolves.
WorkUnits ==
    UNION {{<<strategies[i].label, strategies[i].strats[k].name>> :
                k \in 1..Len(strategies[i].strats)} :
            i \in {j \in 1..Len(strategies) : to_model(strategies[j].label) # None}}

Positions(s, x) == {i \in 1..Len(s) : s[i] = x}

\* C5: for an acyclic dependency graph over the work set, the returned list holds
\* every work unit exactly once and every unit of a dependency D of T (D in the
\* work set) strictly before every unit of T.
C5_SortOrdersDependencies ==
    GraphBuilt =>
        LET G == BuiltGraph
            out == sorted.sorted_strategies
        IN  Acyclic(G) =>
            /\ sorted.kind = "ok"
            /\ Range(out) = WorkUnits
            /\ \A u \in WorkUnits : Cardinality(Positions(out, u)) = 1
            /\ \A i, j \in 1..Len(out) :
                    out[i][1] \in DepsInside(G, out[j][1]) => i < j

\* A sort that had to move a two-strategy label behind a dependency declared
\* after it.
C5_Witness ==
    /\ sorted.kind = "ok"
    /\ \E i, j \in 1..Len(strategies) :
        /\ i < j
        /\ Len(strategies[i].strats) = 2
        /\ strategies[j].label \in DepsInside(BuiltGraph, strategies[i].label)

\* C6: the cycle error is raised exactly when the dependency graph restricted to
\* the work set has a cycle, and it names exactly the labels on a cycle or
\* depending, directly or not, on a label on a cycle.
C6_CycleErrorExact ==
    GraphBuilt =>
        LET G == BuiltGraph
        IN  /\ (sorted.kind = "RuntimeError") <=> ~Acyclic(G)
            /\ sorted.kind = "RuntimeError" =>
                    Range(sorted.names) = {T \in DOMAIN G : Unorderable(G, T)}

\* A cycle error that names a label off the cycle and leaves an orderable one out.
C6_Witness ==
    /\ sorted.kind = "RuntimeError"
    /\ \E T \in Range(sorted.names) : ~OnCycle(BuiltGraph, T)
    /\ \E T \in DOMAIN BuiltGraph : T \notin Range(sorted.names)

\* ----------------------------------------------------------- the executor
\* The run is in _export_concurrently.
InConcurrentRun == Concurrent /\ pc \notin {"start", "serial"} /\ sorted.kind = "ok"

\* The run is in the serial loop of export_data, or has left it.
InSerialRun == ~Concurrent /\ pc # "start" /\ sorted.kind = "ok"

\* The active work set: the units of the resolved strategies that pass only.
ActiveUnits == {u \in WorkUnits : only = {} \/ u[1] \in only}

ActiveLabels == {u[1] : u \in ActiveUnits}

\* The units of label T in the list handed to the executor.
UnitsOf(T) == {u \in Range(model_strategies) : u[1] = T}

\* C1: a label is in in_flight only with every label of its dependency_graph
\* entry in done, the submitted unit of each of them finished without error.
C1_AdmittedAfterDependencies ==
    InConcurrentRun =>
        \A T \in InFlightLabels \cup done :
            /\ T \in DOMAIN sorted.dependency_graph
            /\ sorted.dependency_graph[T] \subseteq done
            /\ \A D \in sorted.dependency_graph[T] :
                    \E u \in DOMAIN futures : u[1] = D /\ futures[u] = "ok"

\* A label with a dependency is in flight.
C1_Witness ==
    /\ InConcurrentRun
    /\ \E T \in InFlightLabels : sorted.dependency_graph[T] # {}

\* C2 as stated: in_flight never holds more than max_concurrency entries.
C2_InFlightWithinBudget ==
    InConcurrentRun => Len(in_flight) <= concurrency[1]

\* C2 as amended: the runners executing at one time never exceed
\* max_concurrency, whatever in_flight holds.
C2_RunningWithinBudget ==
    InConcurrentRun => Cardinality(Running) <= concurrency[1]

\* More units in flight than workers, the pool full and a unit waiting.
C2_Witness ==
    /\ InConcurrentRun
    /\ Len(in_flight) > concurrency[1]
    /\ Cardinality(Running) = concurrency[1]
    /\ queue # <<>>

\* C3: a run that returns without error has called _export_one exactly once
\* for every unit of the active work set, and for nothing else.
C3_EveryUnitOnce ==
    (pc = "done" /\ result.kind = "ok") =>
        /\ Range(invoked) = ActiveUnits
        /\ \A u \in ActiveUnits : Cardinality(Positions(invoked, u)) = 1

\* A concurrent run of several units that returned.
C3_Witness ==
    /\ pc = "done"
    /\ result.kind = "ok"
    /\ Concurrent
    /\ Len(invoked) >= 2

\* The controller's next poll turn looks at a unit whose runner raised.
PollFindsFailure ==
    /\ InConcurrentRun
    /\ pc = "poll"
    /\ todo # <<>>
    /\ futures[Head(todo)] = "exc"

\* The controller has seen a failed unit.
FailureObserved == InConcurrentRun /\ result.kind = "UnitError"

\* What is left of an aborting run: the futures still to cancel, the wait for
\* the pool, the work items queued and the runners executing.
AbortMeasure ==
    (CASE pc = "finally" -> 2 + Len(todo)
       [] pc = "shutdown" -> 1
       [] OTHER -> 0)
    + 2 * Len(queue) + Cardinality(Running)

\* C4: the poll turn that finds a raised runner leaves the loop with that unit's
\* error; from then on nothing is submitted and the error stays the pending one;
\* every later step brings the end of the run nearer, and until the run has
\* ended with that error the controller can step or a runner is still executing.
C4_FailFast ==
    /\ [][(PollFindsFailure /\ <<pc, todo>>' # <<pc, todo>>) =>
            /\ result' = UnitError(Head(todo))
            /\ pc' \in {"finally", "shutdown"}]_vars
    /\ [][FailureObserved =>
            /\ DOMAIN futures' = DOMAIN futures
            /\ in_flight' = in_flight
            /\ result' = result
            /\ pc' \in {"finally", "shutdown", "done"}
            /\ AbortMeasure' < AbortMeasure]_vars
    /\ [](FailureObserved =>
            (pc = "done" \/ ENABLED (Cancel \/ Shutdown \/ WorkerFinish)))

\* A run that ended with a unit's error after cancelling a waiting unit.
C4_Witness ==
    /\ FailureObserved
    /\ pc = "done"
    /\ \E u \in DOMAIN futures : futures[u] = "CANCELLED"

\* The iteration has computed its lists and submitted nothing yet.
IterationStarted == InConcurrentRun /\ pc = "submit" /\ todo = available

\* C7 as stated: an iteration that finds nothing ready, nothing in flight and a
\* unit pending does not go on.
C7_StallIsFatal ==
    ~(/\ IterationStarted
      /\ available = <<>>
      /\ in_flight = <<>>
      /\ \E u \in Range(model_strategies) : Remaining(u))

\* C8 as stated: a pending unit whose dependencies inside the active work set
\* are all in done is ready.
C8_OutsideDependenciesSatisfied ==
    IterationStarted =>
        \A u \in Range(model_strategies) :
            (Remaining(u) /\ (GraphGet(u[1]) \cap ActiveLabels) \subseteq done)
                => u \in Range(available)

\* C9 as stated: a label is admitted only after every handler of each of its
\* dependencies in the work set has run to successful completion.
C9_AllHandlersBeforeDependents ==
    InConcurrentRun =>
        \A T \in InFlightLabels :
            \A D \in GraphGet(T) \cap ActiveLabels :
                \A u \in UnitsOf(D) : u \in DOMAIN futures /\ futures[u] = "ok"

\* The list export_data walks in serial mode: the sorted list, filtered by only.
SerialList ==
    SelectSeq(sorted.sorted_strategies, LAMBDA u : only = {} \/ u[1] \in only)

\* C10: in serial mode the runner calls so far are a prefix of the sorted list;
\* a raised error ends the run with that unit's error, the unit being the last
\* one called; a run that returns has called them all.
C10_SerialInOrderFailFast ==
    InSerialRun =>
        /\ Len(invoked) <= Len(SerialList)
        /\ invoked = SubSeq(SerialList, 1, Len(invoked))
        /\ result.kind \in {"none", "ok", "UnitError"}
        /\ result.kind = "UnitError" =>
                /\ pc = "done"
                /\ invoked # <<>>
                /\ result.unit = invoked[Len(invoked)]
        /\ result.kind = "ok" => (pc = "done" /\ invoked = SerialList)
        /\ pc = "done" => result.kind # "none"

\* Three units in order: the first returned, the second raised, the third was
\* never called.
C10_Witness ==
    /\ InSerialRun
    /\ pc = "done"
    /\ result.kind = "UnitError"
    /\ Len(invoked) = 2
    /\ Len(SerialList) = 3

\* C11 as stated: after a successful sort the concurrent loop never raises its
\* "Reached impossible state" AssertionError of line 146.
C11_ImpossibleStateUnreachable ==
    InConcurrentRun => result.kind # "AssertionError"

\* The labels of the list handed to _export_concurrently.
ExecutorLabels == {model_strategies[i][1] : i \in 1..Len(model_strategies)}

\* The labels neither done nor in flight.
Pending == ExecutorLabels \ (done \cup InFlightLabels)

\* C12: done, in_flight and the pending rest never overlap and hold labels of
\* the work set only, in_flight holds a label once; done never loses a label, a
\* label enters in_flight from pending only and leaves it into done only, and
\* done grows by labels that were in flight only, so no label is in flight twice.
C12_PartitionAndProgress ==
    /\ [](InConcurrentRun =>
            /\ done \cap InFlightLabels = {}
            /\ (done \cup InFlightLabels) \subseteq ExecutorLabels
            /\ Cardinality(InFlightLabels) = Len(in_flight))
    /\ [][InConcurrentRun =>
            /\ done \subseteq done'
            /\ (InFlightLabels' \ InFlightLabels) \subseteq Pending
            /\ (InFlightLabels \ InFlightLabels') \subseteq done'
            /\ (done' \ done) \subseteq InFlightLabels]_vars

\* One label done, one in flight and one still pending.
C12_Witness ==
    /\ InConcurrentRun
    /\ done # {}
    /\ in_flight # <<>>
    /\ Pending # {}

\* C13 as stated: sort_model_strategies raises nothing while it builds the
\* dependency graph, whatever label a depends_on entry or a natural key names.
C13_GraphBuildNeverFails ==
    sorted.kind \notin {"LookupError", "AttributeError"}

\* C14 as stated: no label of the dependency graph built on lines 76-79 is in
\* its own dependency set, whichever declaration names it.
C14_NoSelfLoop ==
    GraphBuilt => \A T \in DOMAIN BuiltGraph : T \notin BuiltGraph[T]

\* C15 as stated: a call of sort_model_strategies on the settings and models of
\* an earlier call returns or raises what that call did.
C15_RepeatedCallsAgree ==
    [][(SortCall /\ sorted.kind # "none") => sorted' = sorted]_vars

\* The labels of available_strategies.
AvailableLabels == {available[i][1] : i \in 1..Len(available)}

\* The example run: A, B and C with one strategy each, B depending on A and on
\* nothing else, concurrency 2.
ExampleABC ==
    /\ InConcurrentRun
    /\ concurrency = <<2>>
    /\ ExecutorLabels = {"app.A", "app.B", "app.C"}
    /\ Len(model_strategies) = 3
    /\ sorted.dependency_graph =
            [l \in {"app.A", "app.B", "app.C"} |->
                IF l = "app.B" THEN {"app.A"} ELSE {}]

\* C16: in the example run the first iteration finds exactly A and C ready and
\* its submit loop leaves exactly A and C in flight; B is in flight or done only
\* with A done; no iteration has B ready together with A or with C.
C16_ExampleSchedule ==
    ExampleABC =>
        /\ (IterationStarted /\ done = {} /\ in_flight = <<>>) =>
                AvailableLabels = {"app.A", "app.C"}
        /\ (pc = "submit" /\ todo = <<>> /\ done = {}) =>
                InFlightLabels = {"app.A", "app.C"}
        /\ "app.B" \in (InFlightLabels \cup done) => "app.A" \in done
        /\ "app.B" \in AvailableLabels =>
                AvailableLabels \cap {"app.A", "app.C"} = {}

\* B was admitted after A finished and is in flight together with C.
C16_Witness ==
    /\ ExampleABC
    /\ {"app.B", "app.C"} \subseteq InFlightLabels
    /\ "app.A" \in done

\* export_data got past the sort and the only filter left it nothing to do.
EmptyWorkSet == sorted.kind = "ok" /\ pc # "start" /\ model_strategies = <<>>

\* C17: with an empty filtered list the run submits nothing, calls _export_one
\* for nothing and raises nothing; the controller is at the serial loop, at the
\* while test or at the end of the with block and can take its step, and each
\* step leads to the end of the with block or to the return, which is a normal
\* return.
C17_EmptyWorkSetReturns ==
    /\ [](EmptyWorkSet =>
            /\ invoked = <<>>
            /\ DOMAIN futures = {}
            /\ pc \in {"serial", "loop", "shutdown", "done"}
            /\ result.kind = (IF pc = "done" THEN "ok" ELSE "none")
            /\ pc # "done" => ENABLED (SerialReturn \/ LoopHead \/ Shutdown))
    /\ [][EmptyWorkSet => pc' \in {"shutdown", "done"}]_vars

\* A concurrent run whose only argument matched none of the configured labels
\* has returned.
C17_Witness ==
    /\ EmptyWorkSet
    /\ pc = "done"
    /\ Concurrent
    /\ strategies # <<>>

\* Lines 83-112: the models each pass appended to model_list, pass by pass.
RECURSIVE PassLists(_, _, _)
PassLists(model_dependencies, models, model_list) ==
    IF model_dependencies = <<>> THEN <<>>
    ELSE LET p == ScanPass(model_dependencies, models, model_list, <<>>, FALSE)
         IN  IF ~p.changed THEN <<>>
             ELSE <<SubSeq(p.model_list, Len(model_list) + 1, Len(p.model_list))>>
                  \o PassLists(p.skipped, models, p.model_list)

\* The passes of the sort of the configured strategies.
SortPasses ==
    LET md == ModelDependencies(strategies)
    IN  PassLists(Reverse(md), {md[i].model : i \in 1..Len(md)}, <<>>)

\* Where settings.strategies declares the model.
DeclaredPosition(model) ==
    CHOOSE i \in 1..Len(strategies) : strategies[i].label = to_app_model_label(model)

\* C18 as stated, for a tie: two models appended in the same pass, the later
\* one not depending on the earlier one even indirectly, stand in the output in
\* their declared relative order, on every pass.
C18_StableTieBreak ==
    sorted.kind = "ok" =>
        LET G == BuiltGraph
            passes == SortPasses
        IN  \A k \in 1..Len(passes) :
                \A i, j \in 1..Len(passes[k]) :
                    (/\ i < j
                     /\ to_app_model_label(passes[k][i])
                            \notin Reach(G, to_app_model_label(passes[k][j])))
                    => DeclaredPosition(passes[k][i]) < DeclaredPosition(passes[k][j])

\* C19 as stated, in the part a finite run can refute: a concurrent run all of
\* whose submitted runners have returned without error has raised nothing.
C19_RunEndsSuccessfully ==
    (InConcurrentRun /\ \A u \in DOMAIN futures : futures[u] = "ok")
        => result.kind \in {"none", "ok"}

\* C20 as stated: once the controller has seen a failed unit, _export_one is
\* called for no further unit.
C20_NoStartAfterFailure ==
    [][FailureObserved => invoked' = invoked]_vars

====
